---------------------------- MODULE Spec2Model ----------------------------
(* Model of the SSH connection service of nexus-terminal                   *)
(* (src/unnamed/part_000): establishSshConnection and its event handlers,  *)
(* driven by the ssh2 client's events, the SOCKS5 promise, the HTTP        *)
(* CONNECT request's events and the repository's updateLastConnected.      *)
EXTENDS Integers, Sequences, FiniteSets, TLC

(* ------------------------------ bounds -------------------------------- *)
\* How many 'error' events the ssh2 client may emit in one attempt.
MaxErrors == 2
\* How many 'close' events the ssh2 client may emit in one attempt.
MaxCloses == 1
\* The last reading of Date.now() (the clock starts at 0).
MaxClock == 2
\* How many times a resolver is called on the same stored data.
MaxCalls == 2

(* ----------------------------- value sets ----------------------------- *)
\* Errors the ssh2 client emits with its 'error' event.
ClientErrors == {"transportError", "authError"}
\* Status codes an HTTP proxy answers a CONNECT request with.
StatusCodes == {200, 407, 502}
\* The proxy types a caller's connDetails.proxy may carry at run time.
\* "FTP" stands for any type outside SOCKS5 and HTTP.
ProxyTypes == {"SOCKS5", "HTTP", "FTP"}
\* The connection ids testConnection is called with; 9 is in no table.
ConnectionIds == {1, 2, 3, 4, 5, 6, 9}

Attempts == {1}

(* ------------------------- stored records ----------------------------- *)
\* null and undefined of the source; 0 stands for a null (falsy) id.
Null == "null"
Undefined == "undefined"

\* decrypt(ciphertext) of ../utils/crypto: the plaintext, or a throw on a
\* ciphertext it cannot decrypt.
\* "bad(...)" are ciphertexts decrypt throws on.
Decryptable == {"enc(pw)", "enc(key)", "enc(phrase)", "enc(proxypw)"}
decrypt(c) ==
  CASE c = "enc(pw)"      -> "pw"
    [] c = "enc(key)"     -> "key"
    [] c = "enc(phrase)"  -> "phrase"
    [] c = "enc(proxypw)" -> "proxypw"
    [] OTHER              -> "DecryptionFailed"

\* JavaScript truthiness of a nullable string column.
Truthy(v) == v \notin {Null, Undefined, ""}

\* SshKeyService.getDecryptedSshKeyById: the Key Vault, <<>> when absent.
KeyVault == [k \in {7} |-> [privateKey |-> "vaultKey", passphrase |-> "vaultPhrase"]]
getDecryptedSshKeyById(k) ==
  IF k \in DOMAIN KeyVault THEN <<KeyVault[k]>> ELSE <<>>

\* ProxyRepository.findProxyById: the proxies table, <<>> when absent.
ProxyRow(id, type) ==
  [id |-> id, name |-> "proxy", type |-> type, host |-> "proxyhost",
   port |-> "1080", username |-> "puser", encrypted_password |-> "enc(proxypw)"]
\* The proxies table: SOCKS5, HTTP, a type outside the two, a null host,
\* a password decrypt throws on.
ProxyTable ==
  [p \in {1, 2, 3, 4, 6} |->
     CASE p = 1 -> ProxyRow(1, "SOCKS5")
       [] p = 2 -> ProxyRow(2, "HTTP")
       [] p = 3 -> ProxyRow(3, "FTP")
       [] p = 4 -> [ProxyRow(4, "HTTP") EXCEPT !.host = Null]
       [] p = 6 -> [ProxyRow(6, "SOCKS5") EXCEPT
                      !.encrypted_password = "bad(proxypw)"]]
findProxyById(p) ==
  IF p \in DOMAIN ProxyTable THEN <<ProxyTable[p]>> ELSE <<>>

\* A row of ConnectionRepository.findFullConnectionById: the connection
\* joined with its proxy: proxy_id is the connection's own reference,
\* proxy_db_id the joined proxy's id (0 when the join finds none).
ConnRow(id, host, auth, pw, keyId, key, proxyId, proxyType) ==
  [id |-> id, name |-> "conn", host |-> host, port |-> "22",
   username |-> "user", auth_method |-> auth,
   encrypted_password |-> pw, encrypted_private_key |-> key,
   encrypted_passphrase |-> IF key = Null THEN Null ELSE "enc(phrase)",
   ssh_key_id |-> keyId,
   proxy_id |-> proxyId,
   proxy_db_id |-> proxyId,
   proxy_name |-> IF proxyId = 0 THEN Null ELSE "proxy",
   proxy_type |-> proxyType,
   proxy_host |-> IF proxyId = 0 THEN Null ELSE "proxyhost",
   proxy_port |-> IF proxyId = 0 THEN Null ELSE "1080",
   proxy_username |-> IF proxyId = 0 THEN Null ELSE "puser",
   proxy_encrypted_password |-> IF proxyId = 0 THEN Null ELSE "enc(proxypw)"]

\* The connections table: password and no proxy; stored key and SOCKS5;
\* inline key and HTTP; a row whose host is null; a dangling key
\* reference; a proxy of a type outside SOCKS5 and HTTP.
ConnectionTable ==
  [c \in {1, 2, 3, 4, 5, 6} |->
     CASE c = 1 -> ConnRow(1, "h", "password", "enc(pw)", 0, Null, 0, Null)
       [] c = 2 -> ConnRow(2, "h", "key", Null, 7, Null, 1, "SOCKS5")
       [] c = 3 -> ConnRow(3, "h", "key", Null, 0, "enc(key)", 2, "HTTP")
       [] c = 4 -> ConnRow(4, Null, "password", "enc(pw)", 0, Null, 0, Null)
       [] c = 5 -> ConnRow(5, "h", "key", Null, 8, "enc(key)", 0, Null)
       [] c = 6 -> ConnRow(6, "h", "password", "enc(pw)", 0, Null, 3, "FTP")]
findFullConnectionById(c) ==
  IF c \in DOMAIN ConnectionTable THEN <<ConnectionTable[c]>> ELSE <<>>

(* ------------------------- Credential resolver ------------------------ *)
\* The outcome of an async function: its value, or the error it threw;
\* decrypts are the ciphertexts it handed to decrypt, in call order.
Return(v) == [error |-> <<>>, value |-> <<v>>, decrypts |-> <<>>]
Throw(e)  == [error |-> e, value |-> <<>>, decrypts |-> <<>>]
Threw(r)  == r.error # <<>>

\* The required-field checks without the one on host.
NullFieldHostUnchecked(raw) ==
  CASE raw.name = Null        -> "null name"
    [] raw.port = Null        -> "null port"
    [] raw.username = Null    -> "null username"
    [] raw.auth_method = Null -> "null auth_method"
    [] OTHER                  -> "none"

\* The first required connection field that is null (the ?? closures).
NullField(raw) ==
  CASE raw.name = Null        -> "null name"
    [] raw.host = Null        -> "null host"
    [] raw.port = Null        -> "null port"
    [] raw.username = Null    -> "null username"
    [] raw.auth_method = Null -> "null auth_method"
    [] OTHER                  -> "none"

\* The credentials step with the two key branches in the other order: an
\* inline key, when present, is decrypted and used before ssh_key_id is
\* looked at.
CredentialsInlineFirst(raw) ==
  LET none == [error |-> "none", password |-> Undefined,
               privateKey |-> Undefined, passphrase |-> Undefined,
               decrypts |-> <<>>]
      stored == getDecryptedSshKeyById(raw.ssh_key_id)
      secrets == IF Truthy(raw.encrypted_passphrase)
                 THEN <<raw.encrypted_private_key, raw.encrypted_passphrase>>
                 ELSE <<raw.encrypted_private_key>>
  IN
  IF raw.auth_method = "password" /\ Truthy(raw.encrypted_password)
  THEN IF raw.encrypted_password \in Decryptable
       THEN [none EXCEPT !.password = decrypt(raw.encrypted_password),
                         !.decrypts = <<raw.encrypted_password>>]
       ELSE [none EXCEPT !.error = "DecryptionFailed",
                         !.decrypts = <<raw.encrypted_password>>]
  ELSE IF raw.auth_method = "key" /\ Truthy(raw.encrypted_private_key)
  THEN IF \E i \in DOMAIN secrets : secrets[i] \notin Decryptable
       THEN [none EXCEPT !.error = "DecryptionFailed", !.decrypts = secrets]
       ELSE [none EXCEPT
               !.privateKey = decrypt(raw.encrypted_private_key),
               !.passphrase = IF Truthy(raw.encrypted_passphrase)
                              THEN decrypt(raw.encrypted_passphrase)
                              ELSE Undefined,
               !.decrypts = secrets]
  ELSE IF raw.auth_method = "key" /\ raw.ssh_key_id # 0
  THEN IF stored = <<>>
       THEN [none EXCEPT !.error = "ssh key not found"]
       ELSE [none EXCEPT !.privateKey = stored[1].privateKey,
                         !.passphrase = stored[1].passphrase]
  ELSE none

\* The credentials step without the check of storedKeyDetails: a dangling
\* ssh_key_id is logged and the details are returned without a key.
CredentialsKeyMissingIgnored(raw) ==
  LET none == [error |-> "none", password |-> Undefined,
               privateKey |-> Undefined, passphrase |-> Undefined,
               decrypts |-> <<>>]
      stored == getDecryptedSshKeyById(raw.ssh_key_id)
      secrets == IF Truthy(raw.encrypted_passphrase)
                 THEN <<raw.encrypted_private_key, raw.encrypted_passphrase>>
                 ELSE <<raw.encrypted_private_key>>
  IN
  IF raw.auth_method = "password" /\ Truthy(raw.encrypted_password)
  THEN IF raw.encrypted_password \in Decryptable
       THEN [none EXCEPT !.password = decrypt(raw.encrypted_password),
                         !.decrypts = <<raw.encrypted_password>>]
       ELSE [none EXCEPT !.error = "DecryptionFailed",
                         !.decrypts = <<raw.encrypted_password>>]
  ELSE IF raw.auth_method = "key" /\ raw.ssh_key_id # 0
  THEN IF stored = <<>>
       THEN none
       ELSE [none EXCEPT !.privateKey = stored[1].privateKey,
                         !.passphrase = stored[1].passphrase]
  ELSE IF raw.auth_method = "key" /\ Truthy(raw.encrypted_private_key)
  THEN IF \E i \in DOMAIN secrets : secrets[i] \notin Decryptable
       THEN [none EXCEPT !.error = "DecryptionFailed", !.decrypts = secrets]
       ELSE [none EXCEPT
               !.privateKey = decrypt(raw.encrypted_private_key),
               !.passphrase = IF Truthy(raw.encrypted_passphrase)
                              THEN decrypt(raw.encrypted_passphrase)
                              ELSE Undefined,
               !.decrypts = secrets]
  ELSE none

\* The credentials getConnectionDetails fills in, or the error thrown.
Credentials(raw) ==
  LET none == [error |-> "none", password |-> Undefined,
               privateKey |-> Undefined, passphrase |-> Undefined,
               decrypts |-> <<>>]
  IN
  IF raw.auth_method = "password" /\ Truthy(raw.encrypted_password)
  THEN IF raw.encrypted_password \in Decryptable
       THEN [none EXCEPT !.password = decrypt(raw.encrypted_password),
                         !.decrypts = <<raw.encrypted_password>>]
       ELSE [none EXCEPT !.error = "DecryptionFailed",
                         !.decrypts = <<raw.encrypted_password>>]
  ELSE IF raw.auth_method = "key"
  THEN IF raw.ssh_key_id # 0
       THEN LET stored == getDecryptedSshKeyById(raw.ssh_key_id)
            IN  IF stored = <<>>
                THEN [none EXCEPT !.error = "ssh key not found"]
                ELSE [none EXCEPT !.privateKey = stored[1].privateKey,
                                  !.passphrase = stored[1].passphrase]
       ELSE IF Truthy(raw.encrypted_private_key)
       THEN IF raw.encrypted_private_key \notin Decryptable
            THEN [none EXCEPT !.error = "DecryptionFailed",
                              !.decrypts = <<raw.encrypted_private_key>>]
            ELSE IF Truthy(raw.encrypted_passphrase)
            THEN IF raw.encrypted_passphrase \notin Decryptable
                 THEN [none EXCEPT
                         !.error = "DecryptionFailed",
                         !.decrypts = <<raw.encrypted_private_key,
                                        raw.encrypted_passphrase>>]
                 ELSE [none EXCEPT
                         !.privateKey = decrypt(raw.encrypted_private_key),
                         !.passphrase = decrypt(raw.encrypted_passphrase),
                         !.decrypts = <<raw.encrypted_private_key,
                                        raw.encrypted_passphrase>>]
            ELSE [none EXCEPT
                    !.privateKey = decrypt(raw.encrypted_private_key),
                    !.decrypts = <<raw.encrypted_private_key>>]
       ELSE none
  ELSE none

\* The proxy a resolver builds from a proxy's columns, <<>> for null, or
\* the error thrown.
ResolvedProxy(id, name, type, host, port, username, encrypted_password) ==
  CASE name = Null ->
         [error |-> "proxy null name", proxy |-> <<>>, decrypts |-> <<>>]
    [] type = Null ->
         [error |-> "proxy null type", proxy |-> <<>>, decrypts |-> <<>>]
    [] host = Null ->
         [error |-> "proxy null host", proxy |-> <<>>, decrypts |-> <<>>]
    [] port = Null ->
         [error |-> "proxy null port", proxy |-> <<>>, decrypts |-> <<>>]
    [] type # "SOCKS5" /\ type # "HTTP" ->
         [error |-> "proxy invalid type", proxy |-> <<>>, decrypts |-> <<>>]
    [] Truthy(encrypted_password) /\ encrypted_password \notin Decryptable ->
         [error |-> "DecryptionFailed", proxy |-> <<>>,
          decrypts |-> <<encrypted_password>>]
    [] OTHER ->
         [error |-> "none",
          decrypts |-> IF Truthy(encrypted_password)
                       THEN <<encrypted_password>> ELSE <<>>,
          proxy |-> << [id |-> id, name |-> name, type |-> type,
                        host |-> host, port |-> port,
                        username |-> IF Truthy(username) THEN username
                                     ELSE Undefined,
                        password |-> IF Truthy(encrypted_password)
                                     THEN decrypt(encrypted_password)
                                     ELSE Undefined] >>]

\* getConnectionDetails on what findFullConnectionById found.
getConnectionDetailsOf(found) ==
  IF found = <<>> THEN Throw(<<"connection not found">>)
  ELSE
    LET raw  == found[1]
        cred == Credentials(raw)
        prox == IF raw.proxy_db_id # 0
                THEN ResolvedProxy(raw.proxy_db_id, raw.proxy_name,
                                   raw.proxy_type, raw.proxy_host,
                                   raw.proxy_port, raw.proxy_username,
                                   raw.proxy_encrypted_password)
                ELSE [error |-> "none", proxy |-> <<>>, decrypts |-> <<>>]
    IN  CASE NullField(raw) # "none" ->
               Throw(<<"processing credentials failed", NullField(raw)>>)
          [] cred.error # "none" ->
               [Throw(<<"processing credentials failed", cred.error>>)
                  EXCEPT !.decrypts = cred.decrypts]
          [] prox.error # "none" ->
               [Throw(<<"processing credentials failed", prox.error>>)
                  EXCEPT !.decrypts = cred.decrypts \o prox.decrypts]
          [] OTHER ->
               [Return([id |-> raw.id, name |-> raw.name, host |-> raw.host,
                        port |-> raw.port, username |-> raw.username,
                        auth_method |-> raw.auth_method,
                        password |-> cred.password,
                        privateKey |-> cred.privateKey,
                        passphrase |-> cred.passphrase,
                        proxy |-> prox.proxy])
                  EXCEPT !.decrypts = cred.decrypts \o prox.decrypts]

getConnectionDetails(connectionId) ==
  getConnectionDetailsOf(findFullConnectionById(connectionId))

\* The inline configurations testUnsavedConnection is called with.
InlineConfig(auth, keyId, proxyId) ==
  [host |-> "h", port |-> "22", username |-> "user", auth_method |-> auth,
   password |-> "pw", private_key |-> "key", passphrase |-> "phrase",
   ssh_key_id |-> keyId, proxy_id |-> proxyId]

\* Steps 1 and 2 of testUnsavedConnection without the check of
\* rawProxyInfo: a proxy_id that finds no proxy leaves proxy null.
tempConnDetailsOfMissingProxyIgnored(connectionConfig) ==
  LET cfg    == connectionConfig
      stored == getDecryptedSshKeyById(cfg.ssh_key_id)
      useVault == cfg.auth_method # "password" /\ cfg.ssh_key_id # 0
      found  == findProxyById(cfg.proxy_id)
      prox   == IF cfg.proxy_id # 0 /\ found # <<>>
                THEN ResolvedProxy(found[1].id, found[1].name, found[1].type,
                                   found[1].host, found[1].port,
                                   found[1].username,
                                   found[1].encrypted_password)
                ELSE [error |-> "none", proxy |-> <<>>, decrypts |-> <<>>]
  IN  CASE useVault /\ stored = <<>> -> Throw(<<"ssh key not found">>)
        [] prox.error # "none" ->
             [Throw(<<"processing proxy credentials failed", prox.error>>)
                EXCEPT !.decrypts = prox.decrypts]
        [] OTHER ->
             [Return([id |-> -1, name |-> "Test", host |-> cfg.host,
                     port |-> cfg.port, username |-> cfg.username,
                     auth_method |-> cfg.auth_method,
                     password |-> IF cfg.auth_method = "password"
                                  THEN cfg.password ELSE Undefined,
                     privateKey |-> IF cfg.auth_method = "password"
                                    THEN Undefined
                                    ELSE IF useVault
                                    THEN stored[1].privateKey
                                    ELSE cfg.private_key,
                     passphrase |-> IF cfg.auth_method = "password"
                                    THEN Undefined
                                    ELSE IF useVault
                                    THEN stored[1].passphrase
                                    ELSE cfg.passphrase,
                     proxy |-> prox.proxy])
                EXCEPT !.decrypts = prox.decrypts]

\* Steps 1 and 2 of testUnsavedConnection copying every secret of the
\* configuration, whatever the mode.
tempConnDetailsOfEverySecret(connectionConfig) ==
  LET cfg    == connectionConfig
      stored == getDecryptedSshKeyById(cfg.ssh_key_id)
      useVault == cfg.auth_method # "password" /\ cfg.ssh_key_id # 0
      found  == findProxyById(cfg.proxy_id)
      prox   == IF cfg.proxy_id # 0 /\ found # <<>>
                THEN ResolvedProxy(found[1].id, found[1].name, found[1].type,
                                   found[1].host, found[1].port,
                                   found[1].username,
                                   found[1].encrypted_password)
                ELSE [error |-> "none", proxy |-> <<>>, decrypts |-> <<>>]
  IN  CASE useVault /\ stored = <<>> -> Throw(<<"ssh key not found">>)
        [] cfg.proxy_id # 0 /\ found = <<>> -> Throw(<<"proxy not found">>)
        [] prox.error # "none" ->
             [Throw(<<"processing proxy credentials failed", prox.error>>)
                EXCEPT !.decrypts = prox.decrypts]
        [] OTHER ->
             [Return([id |-> -1, name |-> "Test", host |-> cfg.host,
                     port |-> cfg.port, username |-> cfg.username,
                     auth_method |-> cfg.auth_method,
                     password |-> cfg.password,
                     privateKey |-> IF useVault THEN stored[1].privateKey
                                    ELSE cfg.private_key,
                     passphrase |-> IF useVault THEN stored[1].passphrase
                                    ELSE cfg.passphrase,
                     proxy |-> prox.proxy])
                EXCEPT !.decrypts = prox.decrypts]

\* Steps 1 and 2 of testUnsavedConnection: tempConnDetails, or the error.
tempConnDetailsOf(connectionConfig) ==
  LET cfg    == connectionConfig
      stored == getDecryptedSshKeyById(cfg.ssh_key_id)
      useVault == cfg.auth_method # "password" /\ cfg.ssh_key_id # 0
      found  == findProxyById(cfg.proxy_id)
      prox   == IF cfg.proxy_id # 0 /\ found # <<>>
                THEN ResolvedProxy(found[1].id, found[1].name, found[1].type,
                                   found[1].host, found[1].port,
                                   found[1].username,
                                   found[1].encrypted_password)
                ELSE [error |-> "none", proxy |-> <<>>, decrypts |-> <<>>]
  IN  CASE useVault /\ stored = <<>> -> Throw(<<"ssh key not found">>)
        [] cfg.proxy_id # 0 /\ found = <<>> -> Throw(<<"proxy not found">>)
        [] prox.error # "none" ->
             [Throw(<<"processing proxy credentials failed", prox.error>>)
                EXCEPT !.decrypts = prox.decrypts]
        [] OTHER ->
             [Return([id |-> -1, name |-> "Test", host |-> cfg.host,
                     port |-> cfg.port, username |-> cfg.username,
                     auth_method |-> cfg.auth_method,
                     password |-> IF cfg.auth_method = "password"
                                  THEN cfg.password ELSE Undefined,
                     privateKey |-> IF cfg.auth_method = "password"
                                    THEN Undefined
                                    ELSE IF useVault
                                    THEN stored[1].privateKey
                                    ELSE cfg.private_key,
                     passphrase |-> IF cfg.auth_method = "password"
                                    THEN Undefined
                                    ELSE IF useVault
                                    THEN stored[1].passphrase
                                    ELSE cfg.passphrase,
                     proxy |-> prox.proxy])
                EXCEPT !.decrypts = prox.decrypts]


\* att: the attempts; now: Date.now(); res: a resolver called on its own.
VARIABLES att, now, res
vars == <<att, now, res>>

(* ------------------------- one attempt's state ------------------------ *)
\* The state of one call before it is made: no client, no promise.
NewAttempt ==
  [ caller       |-> "none",     \* who called establishSshConnection
    callerPc     |-> "none",     \* none | awaiting | returned | threw
    thrown       |-> <<>>,       \* the error the caller is left with
    finallyEnds  |-> 0,          \* calls of sshClient.end by a finally block
    connectionId |-> 0,          \* testConnection's argument
    connectionConfig |-> <<>>,   \* testUnsavedConnection's argument
    resolved     |-> FALSE,      \* the tester's resolver returned
    startTime    |-> 0,          \* Date.now() at the tester's start
    returned     |-> <<>>,       \* the { latency } a tester returned
    id           |-> 0,          \* connDetails.id
    proxy        |-> "null",     \* connDetails.proxy?.type
    promise      |-> "none",     \* none | pending | resolved | rejected
    reason       |-> "none",     \* the error the promise was rejected with
    onReady      |-> {},         \* listeners of sshClient's 'ready'
    onError      |-> {},         \* listeners of sshClient's 'error'
    onClose      |-> {},         \* listeners of sshClient's 'close'
    connectCalls |-> 0,          \* calls of sshClient.connect
    sock         |-> "none",     \* connectConfig.sock at connect
    endCalls     |-> 0,          \* calls of sshClient.end by errorHandler
    endThrew     |-> FALSE,      \* a call of sshClient.end threw
    socks        |-> "none",     \* SocksClient.createConnection's promise
    req          |-> "none",     \* the HTTP CONNECT request
    statusCode   |-> 0,          \* res.statusCode of the 'connect' event
    tunnel       |-> "none",     \* the proxy's socket
    update       |-> "none",     \* updateLastConnected's promise
    updateCalls  |-> 0,          \* calls of updateLastConnected
    readyEmitted |-> FALSE,      \* the client emitted 'ready'
    promiseAtReady |-> "none",   \* the promise when 'ready' was emitted
    errorsEmitted|-> 0,          \* 'error' events the client emitted
    closesEmitted|-> 0,          \* 'close' events the client emitted
    unheardErrors|-> 0,          \* 'error' events emitted with no listener
    endCallsAtReject |-> 0 ]     \* endCalls when the promise was rejected

(* --------------------------- EventEmitter ----------------------------- *)
\* emitter.removeListener(event, fn): removes fn, or the once-wrapper of fn;
\* a function that was never registered removes nothing.
removeListener(listeners, fn) == listeners \ {fn}

(* ------------------------------ Promise ------------------------------- *)
\* resolve(sshClient) of the promise's executor: no effect once settled.
resolve(s) ==
  IF s.promise = "pending" THEN [s EXCEPT !.promise = "resolved"] ELSE s

\* reject(err) of the promise's executor: no effect once settled.
reject(s, err) ==
  IF s.promise = "pending"
  THEN [s EXCEPT !.promise = "rejected", !.reason = err,
                 !.endCallsAtReject = s.endCalls]
  ELSE s

(* ------------------------------ handlers ------------------------------ *)
\* sshClient.connect(connectConfig), with connectConfig.sock = sock.
connect(s, sock) ==
  [s EXCEPT !.connectCalls = @ + 1, !.sock = sock]

\* errorHandler with sshClient.end() outside try/catch: a throw of end()
\* leaves the handler before reject(err).
errorHandlerEndUncaught(s, err, endThrows) ==
  LET s1 == [s EXCEPT !.onReady = removeListener(@, "readyHandler"),
                      !.onError = removeListener(@, "errorHandler"),
                      !.onClose = removeListener(@, "closeHandler")]
      s2 == [s1 EXCEPT !.endCalls = @ + 1, !.endThrew = @ \/ endThrows]
  IN  IF endThrows THEN s2 ELSE reject(s2, err)

\* errorHandler(err): detaches, ends the client inside try/catch, rejects.
errorHandler(s, err, endThrows) ==
  LET s1 == [s EXCEPT !.onReady = removeListener(@, "readyHandler"),
                      !.onError = removeListener(@, "errorHandler"),
                      !.onClose = removeListener(@, "closeHandler")]
      s2 == [s1 EXCEPT !.endCalls = @ + 1, !.endThrew = @ \/ endThrows]
  IN  reject(s2, err)

\* closeHandler(): detaches the listeners and does not reject.
closeHandler(s) ==
  [s EXCEPT !.onReady = removeListener(@, "readyHandler"),
            !.onError = removeListener(@, "errorHandler"),
            !.onClose = removeListener(@, "closeHandler")]

\* readyHandler() up to its await: detaches errorHandler and calls
\* ConnectionRepository.updateLastConnected.
readyHandler(s) ==
  LET s1 == [s EXCEPT !.onError = removeListener(@, "errorHandler")]
  IN  [s1 EXCEPT !.update = "pending", !.updateCalls = @ + 1]

\* readyHandler after its await with no catch: the update's failure leaves
\* the async function before resolve(sshClient).
readyHandlerResumeUncaught(s, updateOk) ==
  IF updateOk THEN resolve([s EXCEPT !.update = "done"])
  ELSE [s EXCEPT !.update = "failed"]

\* readyHandler() after its await: the update's failure is caught and
\* logged, then resolve(sshClient).
readyHandlerResume(s, updateOk) ==
  resolve([s EXCEPT !.update = IF updateOk THEN "done" ELSE "failed"])

\* enhancedReadyHandler(): detaches error and close, then readyHandler().
enhancedReadyHandler(s) ==
  readyHandler([s EXCEPT !.onError = removeListener(@, "errorHandler"),
                         !.onClose = removeListener(@, "closeHandler")])

\* handleProxyError(proxyError): the main errorHandler.
handleProxyError(s, err, endThrows) == errorHandler(s, err, endThrows)

(* ------------------------ establishSshConnection ---------------------- *)
\* The executor without the final else: a proxy of an unknown type is
\* ignored and the client connects directly.
executorUnknownProxyDirect(s, connDetails, endThrows) ==
  LET proxy == IF connDetails.proxy = <<>> THEN "null"
               ELSE connDetails.proxy[1].type
      s1 == [s EXCEPT !.id = connDetails.id, !.proxy = proxy,
                      !.promise = "pending",
                      !.onReady = {"enhancedReadyHandler"},
                      !.onError = {"errorHandler"},
                      !.onClose = {"closeHandler"}]
  IN  CASE proxy = "SOCKS5" -> [s1 EXCEPT !.socks = "pending"]
        [] proxy = "HTTP"   -> [s1 EXCEPT !.req = "pending"]
        [] OTHER            -> connect(s1, "none")

\* The promise's executor: new Client, the three listeners, then the proxy
\* branch.
executor(s, connDetails, endThrows) ==
  LET proxy == IF connDetails.proxy = <<>> THEN "null"
               ELSE connDetails.proxy[1].type
      s1 == [s EXCEPT !.id = connDetails.id, !.proxy = proxy,
                      !.promise = "pending",
                      !.onReady = {"enhancedReadyHandler"},  \* once
                      !.onError = {"errorHandler"},
                      !.onClose = {"closeHandler"}]
  IN  CASE proxy = "SOCKS5" -> [s1 EXCEPT !.socks = "pending"]
        [] proxy = "HTTP"   -> [s1 EXCEPT !.req = "pending"]
        [] proxy = "null"   -> connect(s1, "none")
        [] OTHER            -> handleProxyError(s1, "unsupportedProxyType",
                                                endThrows)

\* The connDetails a caller outside this file passes: resolved ones, and
\* ones carrying a proxy of each type.
DirectDetails ==
  LET d == getConnectionDetails(1).value[1]
      p == getConnectionDetails(2).value[1].proxy[1]
  IN  {d} \cup {[d EXCEPT !.proxy = <<[p EXCEPT !.type = ty]>>] : ty \in ProxyTypes}

\* A caller outside this file calls establishSshConnection(connDetails).
establishSshConnection(a) ==
  /\ att[a].caller = "none"
  /\ \E connDetails \in DirectDetails, endThrows \in BOOLEAN :
       att' = [att EXCEPT ![a] =
                 executor([@ EXCEPT !.caller = "direct",
                                    !.callerPc = "awaiting"],
                          connDetails, endThrows)]
  /\ UNCHANGED <<now, res>>

(* --------------------------- proxy callbacks -------------------------- *)
\* SocksClient.createConnection(...).then: inject the socket and connect.
SocksThen(a) ==
  /\ att[a].socks = "pending"
  /\ att' = [att EXCEPT ![a] =
               connect([@ EXCEPT !.socks = "fulfilled", !.tunnel = "open"],
                       "tunnel")]
  /\ UNCHANGED <<now, res>>

\* SocksClient.createConnection(...).catch: handleProxyError.
SocksCatch(a) ==
  /\ att[a].socks = "pending"
  /\ \E endThrows \in BOOLEAN :
       att' = [att EXCEPT ![a] =
                 handleProxyError([@ EXCEPT !.socks = "rejected"],
                                  "socksError", endThrows)]
  /\ UNCHANGED <<now, res>>

\* The error of a CONNECT answered with a status other than 200: its
\* message carries the status code.
HttpStatusError(status) == "httpStatus " \o ToString(status)

\* req.on('connect') that does not look at res.statusCode.
onConnectAnyStatus(s, status, endThrows) ==
  connect([s EXCEPT !.tunnel = "open"], "tunnel")

\* req.on('connect') without socket.destroy(): a status other than 200
\* fails the attempt and leaves the proxy's socket open.
onConnectLeavesSocket(s, status, endThrows) ==
  IF status = 200
  THEN connect([s EXCEPT !.tunnel = "open"], "tunnel")
  ELSE handleProxyError([s EXCEPT !.tunnel = "open"],
                        HttpStatusError(status), endThrows)

\* req.on('connect'): 200 injects the socket and connects; any other status
\* destroys the socket and fails.
onConnect(s, status, endThrows) ==
  IF status = 200
  THEN connect([s EXCEPT !.tunnel = "open"], "tunnel")
  ELSE handleProxyError([s EXCEPT !.tunnel = "destroyed"],
                        HttpStatusError(status), endThrows)

HttpConnect(a) ==
  /\ att[a].req = "pending"
  /\ \E status \in StatusCodes, endThrows \in BOOLEAN :
       att' = [att EXCEPT ![a] =
                 onConnect([@ EXCEPT !.req = "connected",
                                     !.statusCode = status],
                           status, endThrows)]
  /\ UNCHANGED <<now, res>>

\* req.on('error'): handleProxyError. Node emits 'error' on a request that
\* failed, and ('socket hang up') on one destroyed before its response.
HttpError(a) ==
  /\ att[a].req \in {"pending", "destroyed"}
  /\ \E endThrows \in BOOLEAN :
       att' = [att EXCEPT ![a] =
                 handleProxyError([@ EXCEPT !.req = "closed"], "httpError",
                                  endThrows)]
  /\ UNCHANGED <<now, res>>

\* req.on('timeout') without req.destroy(): the request is left in flight.
HttpTimeoutAbandons(a) ==
  /\ att[a].req = "pending"
  /\ \E endThrows \in BOOLEAN :
       att' = [att EXCEPT ![a] =
                 handleProxyError(@, "httpTimeout", endThrows)]
  /\ UNCHANGED <<now, res>>

\* req.on('timeout'): req.destroy(), then handleProxyError.
HttpTimeout(a) ==
  /\ att[a].req = "pending"
  /\ \E endThrows \in BOOLEAN :
       att' = [att EXCEPT ![a] =
                 handleProxyError([@ EXCEPT !.req = "destroyed"],
                                  "httpTimeout", endThrows)]
  /\ UNCHANGED <<now, res>>

(* ------------------------- the client's events ------------------------ *)
\* sshClient.emit('ready'): the once-listener is removed, then called.
emitReady(s) ==
  LET s1 == [s EXCEPT !.readyEmitted = TRUE, !.promiseAtReady = s.promise]
  IN  IF "enhancedReadyHandler" \in s.onReady
      THEN enhancedReadyHandler(
             [s1 EXCEPT !.onReady = removeListener(@, "enhancedReadyHandler")])
      ELSE s1

\* sshClient.emit('error', err): with no listener the event is unheard
\* (Node throws it).
emitError(s, err, endThrows) ==
  LET s1 == [s EXCEPT !.errorsEmitted = @ + 1]
  IN  IF "errorHandler" \in s.onError
      THEN errorHandler(s1, err, endThrows)
      ELSE [s1 EXCEPT !.unheardErrors = @ + 1]

\* sshClient.emit('close').
emitClose(s) ==
  LET s1 == [s EXCEPT !.closesEmitted = @ + 1]
  IN  IF "closeHandler" \in s.onClose THEN closeHandler(s1) ELSE s1

ClientReady(a) ==
  /\ att[a].connectCalls > 0
  /\ ~att[a].readyEmitted
  /\ att' = [att EXCEPT ![a] = emitReady(@)]
  /\ UNCHANGED <<now, res>>

\* The 'error' event of a client kept in one place for all calls (a
\* module-level client instead of the executor's own): the listeners of
\* every call that has a client run.
ClientErrorSharedClient(a) ==
  /\ att[a].connectCalls > 0
  /\ att[a].errorsEmitted < MaxErrors
  /\ \E err \in ClientErrors, endThrows \in BOOLEAN :
       att' = [b \in DOMAIN att |->
                 IF b = a \/ att[b].promise # "none"
                 THEN emitError(att[b], err, endThrows)
                 ELSE att[b]]
  /\ UNCHANGED <<now, res>>

ClientError(a) ==
  /\ att[a].connectCalls > 0
  /\ att[a].errorsEmitted < MaxErrors
  /\ \E err \in ClientErrors, endThrows \in BOOLEAN :
       att' = [att EXCEPT ![a] = emitError(@, err, endThrows)]
  /\ UNCHANGED <<now, res>>

ClientClose(a) ==
  /\ att[a].connectCalls > 0
  /\ att[a].closesEmitted < MaxCloses
  /\ att' = [att EXCEPT ![a] = emitClose(@)]
  /\ UNCHANGED <<now, res>>

\* updateLastConnected's promise settles: readyHandler resumes.
UpdateSettles(a) ==
  /\ att[a].update = "pending"
  /\ \E updateOk \in BOOLEAN :
       att' = [att EXCEPT ![a] = readyHandlerResume(@, updateOk)]
  /\ UNCHANGED <<now, res>>

(* --------------------------- Connection tester ------------------------ *)
\* The try block up to the await of establishSshConnection: a resolver's
\* throw goes to catch and finally with sshClient still null.
probe(s, resolved, endThrows) ==
  IF Threw(resolved)
  THEN [s EXCEPT !.callerPc = "threw", !.thrown = resolved.error]
  ELSE [executor(s, resolved.value[1], endThrows)
          EXCEPT !.callerPc = "awaiting", !.resolved = TRUE]

\* After the await: on success the latency is endTime - startTime and
\* finally ends the client (a throw of end() replaces the result); on
\* rejection catch rethrows, sshClient is null.
probed(s, endThrows, endTime) ==
  IF s.promise = "resolved"
  THEN [s EXCEPT !.finallyEnds = @ + 1,
                 !.callerPc = IF endThrows THEN "threw" ELSE "returned",
                 !.returned = IF endThrows THEN <<>>
                              ELSE <<[latency |-> endTime - s.startTime]>>,
                 !.thrown = IF endThrows THEN <<"endError">> ELSE <<>>]
  ELSE [s EXCEPT !.callerPc = "threw", !.thrown = <<s.reason>>]

testConnection(a) ==
  /\ att[a].caller = "none"
  /\ \E connectionId \in ConnectionIds, endThrows \in BOOLEAN :
       att' = [att EXCEPT ![a] =
                 probe([@ EXCEPT !.caller = "testConnection",
                                 !.connectionId = connectionId,
                                 !.startTime = now],
                       getConnectionDetails(connectionId), endThrows)]
  /\ UNCHANGED <<now, res>>

testConnectionResumes(a) ==
  /\ att[a].caller = "testConnection"
  /\ att[a].callerPc = "awaiting"
  /\ att[a].promise \in {"resolved", "rejected"}
  /\ \E endThrows \in BOOLEAN :
       att' = [att EXCEPT ![a] = probed(@, endThrows, now)]
  /\ UNCHANGED <<now, res>>

\* The configurations testUnsavedConnection is called with: password, a
\* stored key behind SOCKS5, an inline key behind HTTP, a dangling key
\* reference, a deleted proxy, a proxy of a type outside SOCKS5 and HTTP,
\* a dangling key reference together with a deleted proxy.
InlineConfigs ==
  { InlineConfig("password", 0, 0), InlineConfig("key", 7, 1),
    InlineConfig("key", 0, 2), InlineConfig("key", 8, 0),
    InlineConfig("password", 0, 5), InlineConfig("password", 0, 3),
    InlineConfig("key", 8, 5) }

testUnsavedConnection(a) ==
  /\ att[a].caller = "none"
  /\ \E connectionConfig \in InlineConfigs, endThrows \in BOOLEAN :
       att' = [att EXCEPT ![a] =
                 probe([@ EXCEPT !.caller = "testUnsavedConnection",
                                 !.connectionConfig = <<connectionConfig>>,
                                 !.startTime = now],
                       tempConnDetailsOf(connectionConfig), endThrows)]
  /\ UNCHANGED <<now, res>>

testUnsavedConnectionResumes(a) ==
  /\ att[a].caller = "testUnsavedConnection"
  /\ att[a].callerPc = "awaiting"
  /\ att[a].promise \in {"resolved", "rejected"}
  /\ \E endThrows \in BOOLEAN :
       att' = [att EXCEPT ![a] = probed(@, endThrows, now)]
  /\ UNCHANGED <<now, res>>

(* --------------------------- specification ---------------------------- *)
\* Date.now() advances.
Tick ==
  /\ now < MaxClock
  /\ now' = now + 1
  /\ UNCHANGED <<att, res>>

\* No resolver is called on its own.
NoCall == [op |-> "none", found |-> <<>>, config |-> <<>>, results |-> <<>>]

Init ==
  /\ att = [a \in Attempts |-> NewAttempt]
  /\ now = 0
  /\ res = NoCall

Next ==
  \/ Tick
  \/ \E a \in Attempts :
       \/ establishSshConnection(a)
       \/ SocksThen(a)
       \/ SocksCatch(a)
       \/ HttpConnect(a)
       \/ HttpError(a)
       \/ HttpTimeout(a)
       \/ ClientReady(a)
       \/ ClientError(a)
       \/ ClientClose(a)
       \/ UpdateSettles(a)
       \/ testConnection(a)
       \/ testConnectionResumes(a)
       \/ testUnsavedConnection(a)
       \/ testUnsavedConnectionResumes(a)

Spec == Init /\ [][Next]_vars

\* The event loop runs a caller's continuation once the promise it awaits
\* has settled; nothing obliges the transport, the proxy or the repository
\* to produce an event.
FairSpec ==
  Spec /\ \A a \in Attempts :
            /\ WF_vars(testConnectionResumes(a))
            /\ WF_vars(testUnsavedConnectionResumes(a))

(* ----------------------- resolvers on their own --------------------- *)
\* What the LEFT JOIN of findFullConnectionById yields for a connection's
\* proxy reference: no reference; a SOCKS5, an HTTP proxy; a type outside
\* the two; a null host; a password decrypt throws on; and a reference
\* (proxy_id 5) to a proxy that is not in the proxies table, for which the
\* join leaves every proxy column null.
JoinedProxies ==
  LET joined(id, type, host, pw) ==
        [proxy_id |-> id, proxy_db_id |-> id, proxy_name |-> "proxy",
         proxy_type |-> type, proxy_host |-> host, proxy_port |-> "1080",
         proxy_username |-> "puser", proxy_encrypted_password |-> pw]
      absent(id) ==
        [proxy_id |-> id, proxy_db_id |-> 0, proxy_name |-> Null,
         proxy_type |-> Null, proxy_host |-> Null, proxy_port |-> Null,
         proxy_username |-> Null, proxy_encrypted_password |-> Null]
  IN  { absent(0), absent(5),
        joined(1, "SOCKS5", "proxyhost", "enc(proxypw)"),
        joined(2, "HTTP", "proxyhost", Null),
        joined(3, "FTP", "proxyhost", "enc(proxypw)"),
        joined(4, "HTTP", Null, "enc(proxypw)"),
        joined(6, "SOCKS5", "proxyhost", "bad(proxypw)") }

\* The rows findFullConnectionById may yield: at most one required column
\* null, each authentication mode, each secret column absent, decryptable
\* or not, each stored-key reference (none, 7 in the vault, 8 dangling),
\* each joined proxy.
StoredRows ==
  { [id |-> 1,
     name |-> IF nul = "name" THEN Null ELSE "conn",
     host |-> IF nul = "host" THEN Null ELSE "h",
     port |-> IF nul = "port" THEN Null ELSE "22",
     username |-> IF nul = "username" THEN Null ELSE "user",
     auth_method |-> IF nul = "auth_method" THEN Null ELSE auth,
     encrypted_password |-> pw, encrypted_private_key |-> key,
     encrypted_passphrase |-> phrase, ssh_key_id |-> keyId,
     proxy_id |-> px.proxy_id, proxy_db_id |-> px.proxy_db_id,
     proxy_name |-> px.proxy_name, proxy_type |-> px.proxy_type,
     proxy_host |-> px.proxy_host, proxy_port |-> px.proxy_port,
     proxy_username |-> px.proxy_username,
     proxy_encrypted_password |-> px.proxy_encrypted_password] :
    nul \in {"none", "name", "host", "port", "username", "auth_method"},
    auth \in {"password", "key"},
    pw \in {Null, "enc(pw)", "bad(pw)"},
    key \in {Null, "enc(key)", "bad(key)"},
    phrase \in {Null, "enc(phrase)", "bad(phrase)"},
    keyId \in {0, 7, 8},
    px \in JoinedProxies }

\* The configurations a caller may hand to testUnsavedConnection: each
\* mode, each secret given or not, each key and proxy reference.
UnsavedConfigs ==
  { [host |-> "h", port |-> "22", username |-> "user", auth_method |-> auth,
     password |-> pw, private_key |-> key, passphrase |-> phrase,
     ssh_key_id |-> keyId, proxy_id |-> proxyId] :
    auth \in {"password", "key"},
    pw \in {Undefined, "pw"},
    key \in {Undefined, "key"},
    phrase \in {Undefined, "phrase"},
    keyId \in {0, 7, 8},
    proxyId \in {0, 1, 2, 3, 4, 5, 6} }

\* A resolver is about to be called on what the repository found (no row,
\* or one of StoredRows), or on a caller's configuration.
InitResolve ==
  /\ att = [a \in Attempts |-> NewAttempt]
  /\ now = 0
  /\ \/ \E found \in {<<>>} \cup {<<row>> : row \in StoredRows} :
          res = [NoCall EXCEPT !.op = "getConnectionDetails",
                               !.found = found]
     \/ \E cfg \in UnsavedConfigs :
          res = [NoCall EXCEPT !.op = "testUnsavedConnection",
                               !.config = <<cfg>>]

\* getConnectionDetails scrubbing the secret columns of the row it read
\* (a row object the repository keeps and hands out again).
getConnectionDetailsCalledScrubbing ==
  /\ res.op = "getConnectionDetails"
  /\ Len(res.results) < MaxCalls
  /\ res' = [res EXCEPT
               !.results = Append(@, getConnectionDetailsOf(res.found)),
               !.found = IF res.found = <<>> THEN <<>>
                         ELSE <<[res.found[1] EXCEPT
                                   !.encrypted_password = Null,
                                   !.encrypted_private_key = Null,
                                   !.encrypted_passphrase = Null]>>]
  /\ UNCHANGED <<att, now>>

\* getConnectionDetails is called (again) while the stored data is the same.
getConnectionDetailsCalled ==
  /\ res.op = "getConnectionDetails"
  /\ Len(res.results) < MaxCalls
  /\ res' = [res EXCEPT
               !.results = Append(@, getConnectionDetailsOf(res.found))]
  /\ UNCHANGED <<att, now>>

\* Steps 1 and 2 of testUnsavedConnection are run (again) on the same
\* configuration.
tempConnDetailsBuilt ==
  /\ res.op = "testUnsavedConnection"
  /\ Len(res.results) < MaxCalls
  /\ res' = [res EXCEPT
               !.results = Append(@, tempConnDetailsOf(res.config[1]))]
  /\ UNCHANGED <<att, now>>

NextResolve ==
  \/ getConnectionDetailsCalled
  \/ tempConnDetailsBuilt

SpecResolve == InitResolve /\ [][NextResolve]_vars

(* ------------------------- concurrent attempts ------------------------ *)
\* Two calls whose handlers the event loop interleaves: call 1 through any
\* entry point, call 2 a direct call of establishSshConnection.
TwoAttempts == {1, 2}
TesterAttempts == {1}

InitTwo ==
  /\ att = [a \in TwoAttempts |-> NewAttempt]
  /\ now = 0
  /\ res = NoCall

NextTwo ==
  \/ \E a \in TwoAttempts :
       \/ establishSshConnection(a)
       \/ SocksThen(a)
       \/ SocksCatch(a)
       \/ HttpConnect(a)
       \/ HttpError(a)
       \/ HttpTimeout(a)
       \/ ClientReady(a)
       \/ ClientError(a)
       \/ ClientClose(a)
       \/ UpdateSettles(a)
  \/ \E a \in TesterAttempts :
       \/ testConnection(a)
       \/ testConnectionResumes(a)
       \/ testUnsavedConnection(a)
       \/ testUnsavedConnectionResumes(a)

SpecTwo == InitTwo /\ [][NextTwo]_vars

(* ------------------------------ claims -------------------------------- *)
Settled(s) == s.promise \in {"resolved", "rejected"}
Testers == {"testConnection", "testUnsavedConnection"}

\* C1: for every ordering of the transport's events exactly one outcome is
\* observed: in particular, whenever the client has emitted 'error' before
\* 'ready' (also after a 'close'), the promise is rejected.
C1_ExactlyOneOutcome ==
  \A a \in Attempts :
    (att[a].errorsEmitted > 0 /\ ~att[a].readyEmitted)
      => att[a].promise = "rejected"

\* C2: a 'close' of the transport before 'ready' ends the attempt in a
\* failure: the promise is rejected.
C2_CloseBeforeReadyRejects ==
  \A a \in Attempts :
    (att[a].closesEmitted > 0 /\ ~att[a].readyEmitted)
      => att[a].promise = "rejected"

\* C3: once the promise is settled, no step of the attempt calls
\* sshClient.end() from the establisher, sshClient.connect() or
\* updateLastConnected, and none changes the outcome.
C3_SettledIgnoresEvents ==
  [][\A a \in Attempts :
       Settled(att[a]) =>
         /\ att'[a].endCalls = att[a].endCalls
         /\ att'[a].connectCalls = att[a].connectCalls
         /\ att'[a].updateCalls = att[a].updateCalls
         /\ att'[a].promise = att[a].promise
         /\ att'[a].reason = att[a].reason]_vars

\* C4: once errorHandler, closeHandler or the ready handler has run, no
\* listener of the attempt is attached to 'ready', 'error' or 'close'.
C4_DecidedDetachesAll ==
  \A a \in Attempts :
    (att[a].endCalls > 0 \/ att[a].closesEmitted > 0
       \/ att[a].updateCalls > 0)
      => /\ att[a].onReady = {}
         /\ att[a].onError = {}
         /\ att[a].onClose = {}

\* C5: an attempt that failed has had sshClient.end() called exactly once.
C5_FailureEndsOnce ==
  \A a \in Attempts :
    att[a].promise = "rejected" => att[a].endCalls = 1

\* C6: when testConnection or testUnsavedConnection has returned or thrown
\* after creating a client, end() was called on that client exactly once.
C6_ProbeEndsOnce ==
  \A a \in Attempts :
    (att[a].caller \in Testers /\ att[a].callerPc \in {"returned", "threw"}
       /\ att[a].promise # "none")
      => att[a].endCalls + att[a].finallyEnds = 1

\* C7: with a proxy, sshClient.connect is called at most once, only after
\* the handshake succeeded (SOCKS5 fulfilled, or CONNECT answered 200) and
\* on the tunnel socket; a failed handshake leaves connect uncalled and the
\* promise rejected.
C7_ProxyBeforeAuth ==
  \A a \in Attempts :
    att[a].proxy # "null" =>
      /\ att[a].connectCalls <= 1
      /\ att[a].connectCalls = 1 =>
            /\ att[a].sock = "tunnel" /\ att[a].tunnel = "open"
            /\ \/ att[a].socks = "fulfilled"
               \/ att[a].req = "connected" /\ att[a].statusCode = 200
      /\ (\/ att[a].socks = "rejected"
          \/ att[a].req \in {"destroyed", "closed"}
          \/ att[a].req = "connected" /\ att[a].statusCode # 200)
            => att[a].connectCalls = 0 /\ att[a].promise = "rejected"

C7_Witness ==
  \E a \in Attempts :
    /\ att[a].proxy = "HTTP" /\ att[a].connectCalls = 1
    /\ att[a].promise = "resolved"

\* C8: when 'ready' reaches an undecided attempt and updateLastConnected
\* fails, the promise is resolved, not rejected.
C8_UpdateFailureStillResolves ==
  \A a \in Attempts :
    (att[a].update = "failed" /\ att[a].promiseAtReady = "pending")
      => att[a].promise = "resolved"

C8_Witness ==
  \E a \in Attempts :
    /\ att[a].update = "failed" /\ att[a].promiseAtReady = "pending"
    /\ att[a].promise = "resolved"

\* C9: once 'ready' reaches an undecided attempt, the promise is eventually
\* resolved, whether or not updateLastConnected ever completes.
C9_ReadyLeadsToSuccess ==
  \A a \in Attempts :
    (att[a].readyEmitted /\ att[a].promiseAtReady = "pending")
      ~> (att[a].promise = "resolved")

\* C10: a rejected promise was rejected after sshClient.end() was called
\* and with the error handed to errorHandler, not a teardown error; and
\* when errorHandler has run, also with end() throwing, the promise is
\* rejected.
C10_FailureTearsDown ==
  \A a \in Attempts :
    /\ att[a].promise = "rejected" =>
          /\ att[a].endCallsAtReject >= 1
          /\ att[a].reason \in ClientErrors \cup
                {"socksError", "httpError", "httpTimeout",
                 "unsupportedProxyType"} \cup
                {HttpStatusError(c) : c \in StatusCodes}
    /\ att[a].endCalls > 0 => att[a].promise = "rejected"

C10_Witness ==
  \E a \in Attempts :
    /\ att[a].promise = "rejected" /\ att[a].endThrew
    /\ att[a].errorsEmitted > 0

(* --------------------------- resolver claims -------------------------- *)
\* The outcomes of the resolver that was called on its own.
Results == {res.results[i] : i \in DOMAIN res.results}
\* The row getConnectionDetails works on, the configuration
\* testUnsavedConnection works on.
StoredCall == res.op = "getConnectionDetails" /\ res.found # <<>>
UnsavedCall == res.op = "testUnsavedConnection"

\* C11: in mode 'key' a stored-key reference takes precedence over an
\* inline key: with both present, what either resolver returns carries the
\* Key Vault entry's privateKey and passphrase, and getConnectionDetails
\* hands neither the inline key nor its passphrase to decrypt.
C11_StoredKeyPrecedence ==
  \A r \in Results :
    /\ StoredCall =>
         LET raw == res.found[1] IN
           (raw.auth_method = "key" /\ raw.ssh_key_id # 0
              /\ Truthy(raw.encrypted_private_key)) =>
             /\ \A i \in DOMAIN r.decrypts :
                  r.decrypts[i] \notin {raw.encrypted_private_key,
                                        raw.encrypted_passphrase}
             /\ ~Threw(r) =>
                  /\ raw.ssh_key_id \in DOMAIN KeyVault
                  /\ r.value[1].privateKey =
                       KeyVault[raw.ssh_key_id].privateKey
                  /\ r.value[1].passphrase =
                       KeyVault[raw.ssh_key_id].passphrase
    /\ UnsavedCall =>
         LET cfg == res.config[1] IN
           (cfg.auth_method = "key" /\ cfg.ssh_key_id # 0
              /\ cfg.private_key # Undefined /\ ~Threw(r)) =>
             /\ cfg.ssh_key_id \in DOMAIN KeyVault
             /\ r.value[1].privateKey = KeyVault[cfg.ssh_key_id].privateKey
             /\ r.value[1].passphrase = KeyVault[cfg.ssh_key_id].passphrase

C11_Witness ==
  /\ StoredCall
  /\ res.found[1].auth_method = "key" /\ res.found[1].ssh_key_id = 7
  /\ res.found[1].encrypted_private_key = "enc(key)"
  /\ res.found[1].encrypted_passphrase = "enc(phrase)"
  /\ \E r \in Results : ~Threw(r) /\ r.value[1].privateKey = "vaultKey"

(* ---------------------------- tester claims --------------------------- *)
\* No transport of the attempt was created or connected: no client and no
\* promise, no SOCKS5 connection, no CONNECT request, no connect call.
NoTransport(s) ==
  /\ s.promise = "none" /\ s.onError = {}
  /\ s.socks = "none" /\ s.req = "none" /\ s.tunnel = "none"
  /\ s.connectCalls = 0

\* testConnection was called on a row that passes the required-field
\* checks and, in mode 'key', references a key the Key Vault does not hold.
DanglingStoredKey(s) ==
  /\ s.caller = "testConnection"
  /\ findFullConnectionById(s.connectionId) # <<>>
  /\ LET raw == findFullConnectionById(s.connectionId)[1]
     IN  /\ NullField(raw) = "none"
         /\ raw.auth_method = "key" /\ raw.ssh_key_id # 0
         /\ getDecryptedSshKeyById(raw.ssh_key_id) = <<>>

\* testUnsavedConnection was called in mode 'key' with a reference to a key
\* the Key Vault does not hold.
DanglingInlineKey(s) ==
  /\ s.caller = "testUnsavedConnection"
  /\ LET cfg == s.connectionConfig[1]
     IN  /\ cfg.auth_method = "key" /\ cfg.ssh_key_id # 0
         /\ getDecryptedSshKeyById(cfg.ssh_key_id) = <<>>

\* C12: in mode 'key' with a dangling stored-key reference, resolution
\* fails with the key-not-found error in getConnectionDetails and in
\* testUnsavedConnection: nothing is returned, no transport is created
\* or connected.
C12_DanglingKeyFails ==
  \A a \in Attempts :
    /\ DanglingStoredKey(att[a]) =>
         /\ att[a].callerPc = "threw" /\ ~att[a].resolved
         /\ att[a].thrown =
              <<"processing credentials failed", "ssh key not found">>
         /\ NoTransport(att[a])
    /\ DanglingInlineKey(att[a]) =>
         /\ att[a].callerPc = "threw" /\ ~att[a].resolved
         /\ att[a].thrown = <<"ssh key not found">>
         /\ NoTransport(att[a])

C12_Witness ==
  \E a \in Attempts :
    /\ DanglingStoredKey(att[a]) /\ att[a].callerPc = "threw"
    /\ findFullConnectionById(att[a].connectionId)[1].encrypted_private_key
         = "enc(key)"

\* The proxy types establishSshConnection has a branch for.
SupportedProxyTypes == {"SOCKS5", "HTTP"}

\* testConnection was called on a row whose joined proxy has a type outside
\* SOCKS5 and HTTP, and which reaches the type check (required fields and
\* credentials are in order).
StoredProxyTypeUnsupported(s) ==
  /\ s.caller = "testConnection"
  /\ findFullConnectionById(s.connectionId) # <<>>
  /\ LET raw == findFullConnectionById(s.connectionId)[1]
     IN  /\ NullField(raw) = "none" /\ Credentials(raw).error = "none"
         /\ raw.proxy_db_id # 0
         /\ Null \notin {raw.proxy_name, raw.proxy_type, raw.proxy_host,
                         raw.proxy_port}
         /\ raw.proxy_type \notin SupportedProxyTypes

\* testUnsavedConnection was called with the id of a proxy whose type is
\* outside SOCKS5 and HTTP, and reaches the type check.
InlineProxyTypeUnsupported(s) ==
  /\ s.caller = "testUnsavedConnection"
  /\ ~DanglingInlineKey(s)
  /\ LET cfg == s.connectionConfig[1]
         found == findProxyById(cfg.proxy_id)
     IN  /\ cfg.proxy_id # 0 /\ found # <<>>
         /\ Null \notin {found[1].name, found[1].type, found[1].host,
                         found[1].port}
         /\ found[1].type \notin SupportedProxyTypes

\* C13: a proxy type outside SOCKS5 and HTTP fails the attempt before any
\* network operation: both resolvers throw the invalid-type error and no
\* transport is created; establishSshConnection handed such a proxy rejects
\* with the unsupported-type error without SocksClient.createConnection,
\* http.request or sshClient.connect.
C13_UnsupportedProxyType ==
  \A a \in Attempts :
    /\ StoredProxyTypeUnsupported(att[a]) =>
         /\ att[a].callerPc = "threw"
         /\ att[a].thrown =
              <<"processing credentials failed", "proxy invalid type">>
         /\ NoTransport(att[a])
    /\ InlineProxyTypeUnsupported(att[a]) =>
         /\ att[a].callerPc = "threw"
         /\ att[a].thrown =
              <<"processing proxy credentials failed", "proxy invalid type">>
         /\ NoTransport(att[a])
    /\ (att[a].promise # "none"
          /\ att[a].proxy \notin SupportedProxyTypes \cup {"null"}) =>
         /\ att[a].promise = "rejected"
         /\ att[a].reason = "unsupportedProxyType"
         /\ att[a].socks = "none" /\ att[a].req = "none"
         /\ att[a].tunnel = "none" /\ att[a].connectCalls = 0

C13_Witness ==
  \E a \in Attempts :
    /\ att[a].caller = "direct" /\ att[a].proxy = "FTP"
    /\ att[a].promise = "rejected" /\ att[a].connectCalls = 0

\* C14: getConnectionDetails on a connection that references a proxy the
\* lookup does not find (proxy_id set, no joined proxy columns) fails: it
\* never returns details with proxy = null.
C14_MissingProxyFails ==
  \A r \in Results :
    (StoredCall /\ res.found[1].proxy_id # 0
       /\ res.found[1].proxy_db_id = 0)
      => /\ Threw(r)
         /\ r.value = <<>>

\* testUnsavedConnection was called with the id of a proxy that is not in
\* the proxies table.
DeletedProxy(s) ==
  /\ s.caller = "testUnsavedConnection"
  /\ s.connectionConfig[1].proxy_id # 0
  /\ findProxyById(s.connectionConfig[1].proxy_id) = <<>>

\* C15: testUnsavedConnection with a proxy_id of a deleted proxy fails
\* before any transport connect: establishSshConnection is not invoked, no
\* client is created, and the caller gets the proxy-not-found error (the
\* key-not-found error when the key reference is dangling too, which is
\* looked up first).
C15_DeletedProxyFails ==
  \A a \in Attempts :
    DeletedProxy(att[a]) =>
      /\ att[a].callerPc = "threw" /\ ~att[a].resolved
      /\ att[a].thrown = IF DanglingInlineKey(att[a])
                         THEN <<"ssh key not found">>
                         ELSE <<"proxy not found">>
      /\ NoTransport(att[a])
      /\ att[a].endCalls = 0 /\ att[a].finallyEnds = 0

C15_Witness ==
  \E a \in Attempts :
    /\ DeletedProxy(att[a]) /\ ~DanglingInlineKey(att[a])
    /\ att[a].thrown = <<"proxy not found">>

(* -------------------------- HTTP proxy claims ------------------------- *)
\* C16: when the HTTP proxy answers CONNECT with a status other than 200,
\* the promise is rejected with an error carrying that status code and the
\* proxy's socket has been destroyed: no socket of the attempt is open and
\* none was handed to sshClient.connect.
C16_Non200DestroysSocket ==
  \A a \in Attempts :
    (att[a].req = "connected" /\ att[a].statusCode # 200) =>
      /\ att[a].promise = "rejected"
      /\ att[a].reason = HttpStatusError(att[a].statusCode)
      /\ att[a].tunnel = "destroyed"
      /\ att[a].connectCalls = 0 /\ att[a].sock = "none"

C16_Witness ==
  \E a \in Attempts :
    /\ att[a].req = "connected" /\ att[a].statusCode = 407
    /\ att[a].promise = "rejected" /\ att[a].tunnel = "destroyed"
    /\ att[a].reason = "httpStatus 407"

\* C17: when the CONNECT request times out, the request is destroyed (not
\* left in flight) and the promise is rejected with the timeout error; from
\* then on no tunnel socket of the request is open, sshClient.connect is
\* not called and no authentication starts.
C17_TimeoutAborts ==
  \A a \in Attempts :
    (att[a].req = "destroyed" \/ att[a].reason = "httpTimeout") =>
      /\ att[a].req \in {"destroyed", "closed"}
      /\ att[a].promise = "rejected"
      /\ att[a].reason = "httpTimeout"
      /\ att[a].tunnel = "none"
      /\ att[a].connectCalls = 0 /\ att[a].sock = "none"
      /\ ~att[a].readyEmitted /\ att[a].updateCalls = 0

C17_Witness ==
  \E a \in Attempts :
    /\ att[a].proxy = "HTTP" /\ att[a].req = "closed"
    /\ att[a].reason = "httpTimeout" /\ att[a].promise = "rejected"

\* C18: getConnectionDetails throws the not-found error when the record is
\* absent, and the invalid-record error naming the field when host, port,
\* username or auth_method is null; in both cases nothing is returned and
\* nothing was decrypted.
C18_AbsentOrInvalidRecord ==
  \A r \in Results :
    res.op = "getConnectionDetails" =>
      /\ res.found = <<>> =>
           /\ r.error = <<"connection not found">>
           /\ r.value = <<>> /\ r.decrypts = <<>>
      /\ res.found # <<>> =>
           LET raw == res.found[1]
               failsWith(cause) ==
                 /\ r.error = <<"processing credentials failed", cause>>
                 /\ r.value = <<>> /\ r.decrypts = <<>>
           IN  /\ raw.host = Null => failsWith("null host")
               /\ raw.port = Null => failsWith("null port")
               /\ raw.username = Null => failsWith("null username")
               /\ raw.auth_method = Null => failsWith("null auth_method")

C18_Witness ==
  /\ StoredCall
  /\ res.found[1].host = Null
  /\ res.found[1].encrypted_password = "enc(pw)"
  /\ \E r \in Results : Threw(r) /\ r.decrypts = <<>>

\* C19: what getConnectionDetails returns and what testUnsavedConnection
\* builds has credentials exclusive per mode: in mode 'password' privateKey
\* and passphrase are undefined, in mode 'key' password is undefined,
\* whatever secrets the row or the configuration carries.
C19_CredentialsExclusive ==
  \A r \in Results :
    ~Threw(r) =>
      LET d == r.value[1] IN
        /\ d.auth_method = "password" =>
             d.privateKey = Undefined /\ d.passphrase = Undefined
        /\ d.auth_method = "key" => d.password = Undefined

C19_Witness ==
  /\ UnsavedCall
  /\ res.config[1].auth_method = "password"
  /\ res.config[1].private_key = "key" /\ res.config[1].password = "pw"
  /\ \E r \in Results :
       /\ ~Threw(r)
       /\ r.value[1].password = "pw" /\ r.value[1].privateKey = Undefined

\* The first error a tester meets: the resolver's when resolution failed,
\* else the one establishSshConnection's promise was rejected with.
FirstError(s) ==
  IF s.resolved THEN <<s.reason>>
  ELSE IF s.caller = "testConnection"
       THEN getConnectionDetails(s.connectionId).error
       ELSE tempConnDetailsOf(s.connectionConfig[1]).error

\* C20: a tester that has finished returned a latency if and only if
\* resolution and establishment both succeeded, the latency being the
\* non-negative difference of the two clock readings; otherwise it threw
\* the first error it met, unchanged.
C20_LatencyIffSuccess ==
  \A a \in Attempts :
    (att[a].caller \in Testers
       /\ att[a].callerPc \in {"returned", "threw"}) =>
      /\ att[a].callerPc = "returned"
           <=> (att[a].resolved /\ att[a].promise = "resolved")
      /\ att[a].callerPc = "returned" =>
           /\ att[a].returned # <<>>
           /\ att[a].returned[1].latency >= 0
           /\ att[a].returned[1].latency <= now - att[a].startTime
      /\ att[a].callerPc = "threw" =>
           att[a].thrown = FirstError(att[a])

C23_ErrorListenerWhilePending ==
  \A a \in DOMAIN att :
    (att[a].connectCalls > 0 /\ att[a].promise = "pending")
      => "errorHandler" \in att[a].onError

\* C24: per attempt updateLastConnected is called at most once, only after
\* the client's 'ready' event, and never for an attempt that failed: an
\* attempt whose promise is rejected has not updated the timestamp, also
\* when 'ready' is emitted after the rejection.
C24_UpdateOnlyOnSuccess ==
  \A a \in DOMAIN att :
    /\ att[a].updateCalls <= 1
    /\ att[a].updateCalls > 0 => att[a].readyEmitted
    /\ att[a].promise = "rejected" => att[a].updateCalls = 0

=============================================================================
